---- MODULE Spec2Model ----
(***************************************************************************)
(* Model of the Emby adapter routes of MoonTVPlus:                         *)
(*   - the stream proxy  GET /api/emby/play/{token}/{filename}             *)
(*     with its in-memory configuration cache (getCachedEmbyConfig);       *)
(*   - the CMS proxy     GET /api/emby/cms-proxy/{token}                   *)
(*     (GET, handleSearch, handleDetailBySearch, handleDetail).            *)
(*                                                                         *)
(* JavaScript values: an absent object is Null; an absent string           *)
(* (undefined / null) is Undefined; an optional number is <<>> or <<n>>.   *)
(* String literals that are not ASCII in the source are written in         *)
(* ASCII here and listed next to their definition.                         *)
(***************************************************************************)
EXTENDS Integers, Sequences, FiniteSets, TLC

\* ------------------------------------------------------------------------
\* Bounds of the model
\* ------------------------------------------------------------------------
\* number of times the clock advances in one behaviour
MaxTicks == 2
\* longest episode list the upstream returns for a series
MaxEpisodes == 3

\* ------------------------------------------------------------------------
\* JavaScript values
\* ------------------------------------------------------------------------
Null == [nil |-> TRUE]
Undefined == "<undefined>"

\* an external step of a handler: the operation and its arguments
Ev(op, arg) == [op |-> op, arg |-> arg]

\* the operations of a list of external steps
Ops(eff) == [i \in DOMAIN eff |-> eff[i].op]

\* truthiness of a string-or-undefined value
Truthy(s) == s # Undefined /\ s # ""

\* a || b on strings
OrElse(a, b) == IF Truthy(a) THEN a ELSE b

\* ------------------------------------------------------------------------
\* Environment: shared secret, configuration store, clock
\* ------------------------------------------------------------------------
\* values of process.env.TVBOX_SUBSCRIBE_TOKEN
Secrets == {Undefined, "", "s 1"}
\* path tokens of requests (a path segment is never empty)
Tokens == {"s 1", "bad"}

EmbyCfg(en, url, key, tok, uid, user, pass) ==
    [Enabled |-> en, ServerURL |-> url, ApiKey |-> key, AuthToken |-> tok,
     UserId |-> uid, Username |-> user, Password |-> pass]

\* values of config.EmbyConfig in the configuration store
StoreConfigs ==
    { Null,
      EmbyCfg(FALSE, "u1", "k1", Undefined, "U1", Undefined, Undefined),
      EmbyCfg(TRUE, "", "k1", Undefined, "U1", Undefined, Undefined),
      EmbyCfg(TRUE, "u1", "", Undefined, Undefined, Undefined, Undefined),
      EmbyCfg(TRUE, "u1", "k1", Undefined, "U1", Undefined, Undefined),
      EmbyCfg(TRUE, "u2", Undefined, "k2", Undefined, "name", "pw") }

\* clock steps in ms: one step stays below the TTL, two steps reach it exactly
TickSteps == {150000}

CACHE_TTL == 5 * 60 * 1000

VARIABLES
    subscribeToken,     \* process.env.TVBOX_SUBSCRIBE_TOKEN
    store,              \* config.EmbyConfig as getConfig() returns it
    clock,              \* Date.now()
    ticks,              \* number of clock advances so far
    cachedEmbyConfig,   \* the module-level cache slot
    slotReadAt,         \* ghost: clock value when the slot's entry was read from the store
    pc,                 \* per request: position in GET
    req,                \* per request: what was asked (and what upstream will answer)
    now,                \* per stream request: `now` of getCachedEmbyConfig
    seen,               \* ghost: the slot as the reloading call found it
    loaded,             \* per stream request: config returned by getConfig()
    readAt,             \* ghost: clock value when getConfig() read the store
    embyConfig,         \* per stream request: result of getCachedEmbyConfig
    resp,               \* per request: the response
    effects             \* per request: external steps performed, in order

streamVars == <<cachedEmbyConfig, slotReadAt, pc, req, now, seen, loaded,
                readAt, embyConfig, resp, effects>>
envVars == <<subscribeToken, store, clock, ticks>>
vars == <<envVars, streamVars>>

\* the requests that can be in flight at the same time
Procs == {"a", "b"}

\* ------------------------------------------------------------------------
\* Config cache (getCachedEmbyConfig)
\* ------------------------------------------------------------------------
\* variant: an entry of exactly the TTL's age still counts as fresh
CacheFresh_inclusive(c, t) == c # Null /\ (t - c.timestamp) <= CACHE_TTL

\* line 26: the cache exists and has not expired
CacheFresh(c, t) == c # Null /\ (t - c.timestamp) < CACHE_TTL

\* lines 34-40: first validation
ConfigUnusable(cfg) ==
    \/ cfg = Null
    \/ ~cfg.Enabled
    \/ ~Truthy(cfg.ServerURL)

\* line 42: ApiKey || AuthToken
Credential(cfg) == OrElse(cfg.ApiKey, cfg.AuthToken)

\* lines 34-45: the error getCachedEmbyConfig throws, or "none"
ConfigError(cfg) ==
    IF ConfigUnusable(cfg) THEN "not configured or disabled"
    ELSE IF ~Truthy(Credential(cfg)) THEN "credential missing"
    ELSE "none"

\* variant: the entry is stamped when it is written, not when the call began
NewEntry_stampAtWrite(cfg, t) ==
    [serverURL |-> cfg.ServerURL, apiKey |-> Credential(cfg), timestamp |-> clock]

\* lines 48-52: the entry written to the slot
NewEntry(cfg, t) ==
    [serverURL |-> cfg.ServerURL, apiKey |-> Credential(cfg), timestamp |-> t]

\* variant: a failed reload keeps serving the old entry by re-stamping it
SlotAfterReload_restamp(slot, cfg, t) ==
    IF ConfigError(cfg) = "none" THEN NewEntry(cfg, t)
    ELSE IF slot # Null THEN [slot EXCEPT !.timestamp = t]
    ELSE slot

\* lines 34-52: the slot after the reload resumed with cfg
SlotAfterReload(slot, cfg, t) ==
    IF ConfigError(cfg) = "none" THEN NewEntry(cfg, t) ELSE slot

\* ------------------------------------------------------------------------
\* Stream proxy (GET /api/emby/play/{token}/{filename})
\* ------------------------------------------------------------------------
\* usernames getAuthInfoFromCookie can yield; Undefined: no session
CookieUsers == {Undefined, "", "alice"}
\* values of searchParams.get('itemId')
ItemIds == {Undefined, "i1"}
\* HTTP status of the upstream stream answer
UpstreamStatuses == {206, 404}

\* line 77: subscribeToken && requestToken === subscribeToken
HasValidToken(token, secret) == Truthy(secret) /\ token = secret

\* variant: any session cookie counts, the user name is not looked at
HasValidAuth_anySession(user) == user # Undefined

\* line 79: authInfo && authInfo.username
HasValidAuth(user) == Truthy(user)

\* line 82: the request is rejected with 401
StreamRejected(token, user, secret) ==
    ~HasValidToken(token, secret) /\ ~HasValidAuth(user)

\* line 96: the upstream URL, as its variable parts
EmbyStreamUrl(cfg, itemId) ==
    <<cfg.serverURL, "/Videos/", itemId, "/stream?Static=true&api_key=", cfg.apiKey>>

Json(status, error) == [status |-> status, error |-> error]

Request(token, user, itemId) ==
    [route |-> "play", token |-> token, user |-> user, itemId |-> itemId]

\* the request of p ends with the given response; its locals are gone
Respond(p, answer) ==
    /\ resp' = [resp EXCEPT ![p] = answer]
    /\ pc' = [pc EXCEPT ![p] = "done"]
    /\ now' = [now EXCEPT ![p] = <<>>]
    /\ seen' = [seen EXCEPT ![p] = Null]
    /\ loaded' = [loaded EXCEPT ![p] = Null]
    /\ readAt' = [readAt EXCEPT ![p] = <<>>]
    /\ embyConfig' = [embyConfig EXCEPT ![p] = Null]

\* lines 69-93: GET up to the first suspension; a cache hit goes straight
\* on to the fetch of line 106
StreamStart(p, token, user, itemId) ==
    /\ pc[p] = "idle"
    /\ req' = [req EXCEPT ![p] = Request(token, user, itemId)]
    /\ IF StreamRejected(token, user, subscribeToken)
         THEN /\ Respond(p, Json(401, "unauthorized"))
              /\ effects' = [effects EXCEPT ![p] = <<>>]
         ELSE IF ~Truthy(itemId)
         THEN /\ Respond(p, Json(400, "missing itemId"))
              /\ effects' = [effects EXCEPT ![p] = <<>>]
         ELSE /\ resp' = [resp EXCEPT ![p] = Null]
              /\ UNCHANGED <<loaded, readAt>>
              /\ IF CacheFresh(cachedEmbyConfig, clock)
                   THEN /\ embyConfig' = [embyConfig EXCEPT ![p] = cachedEmbyConfig]
                        /\ effects' = [effects EXCEPT ![p] = <<Ev("cacheRead", <<>>), Ev("fetch", EmbyStreamUrl(cachedEmbyConfig, itemId))>>]
                        /\ pc' = [pc EXCEPT ![p] = "fetching"]
                        /\ UNCHANGED <<now, seen>>
                   ELSE /\ now' = [now EXCEPT ![p] = <<clock>>]
                        /\ seen' = [seen EXCEPT ![p] = cachedEmbyConfig]
                        /\ effects' = [effects EXCEPT ![p] = <<Ev("cacheRead", <<>>), Ev("getConfig", <<>>)>>]
                        /\ pc' = [pc EXCEPT ![p] = "loading"]
                        /\ UNCHANGED embyConfig
    /\ UNCHANGED <<cachedEmbyConfig, slotReadAt, envVars>>

\* line 31: getConfig() reads the configuration store
StoreRead(p) ==
    /\ pc[p] = "loading"
    /\ loaded' = [loaded EXCEPT ![p] = store]
    /\ readAt' = [readAt EXCEPT ![p] = <<clock>>]
    /\ pc' = [pc EXCEPT ![p] = "loaded"]
    /\ UNCHANGED <<cachedEmbyConfig, slotReadAt, req, now, seen, embyConfig,
                   resp, effects, envVars>>

\* lines 32-55 and 93-108: getCachedEmbyConfig resumes after the await,
\* throws (caught at line 153) or writes the slot, and GET goes on to the fetch
ConfigResume(p) ==
    /\ pc[p] = "loaded"
    /\ cachedEmbyConfig' = SlotAfterReload(cachedEmbyConfig, loaded[p], now[p][1])
    /\ IF ConfigError(loaded[p]) # "none"
         THEN /\ Respond(p, Json(500, ConfigError(loaded[p])))
              /\ UNCHANGED <<slotReadAt, effects>>
         ELSE /\ slotReadAt' = readAt[p]
              /\ embyConfig' = [embyConfig EXCEPT ![p] = cachedEmbyConfig']
              /\ effects' = [effects EXCEPT ![p] = @ \o <<Ev("cacheWrite", <<>>),
                                   Ev("fetch", EmbyStreamUrl(cachedEmbyConfig', req[p].itemId))>>]
              /\ pc' = [pc EXCEPT ![p] = "fetching"]
              /\ now' = [now EXCEPT ![p] = <<>>]
              /\ seen' = [seen EXCEPT ![p] = Null]
              /\ loaded' = [loaded EXCEPT ![p] = Null]
              /\ readAt' = [readAt EXCEPT ![p] = <<>>]
              /\ UNCHANGED resp
    /\ UNCHANGED <<req, envVars>>

\* lines 106-152: the upstream answers the fetch
FetchDone(p, status) ==
    /\ pc[p] = "fetching"
    /\ Respond(p, IF status \in 200..299
                  THEN [status |-> status, error |-> "none"]
                  ELSE Json(500, "stream fetch failed"))
    /\ UNCHANGED <<cachedEmbyConfig, slotReadAt, req, effects, envVars>>

\* ------------------------------------------------------------------------
\* Upstream media server, as the Emby client presents it
\* ------------------------------------------------------------------------
Item(id, name, type, year, overview) ==
    [Id |-> id, Name |-> name, Type |-> type, ProductionYear |-> year,
     Overview |-> overview]

\* Limit of handleSearch (line 133) and of handleDetailBySearch (line 171)
SearchLimit == 100
FirstMatchLimit == 1

\* a library of four items, one of them neither Movie nor Series
LibSmall ==
    << Item("1", "q", "Movie", <<1999>>, "plot"),
       Item("2", "q", "Series", <<>>, Undefined),
       Item("3", "q", "Episode", <<>>, Undefined),
       Item("4", "other", "Movie", <<0>>, "") >>

\* a library with one item more than the search limit
LibBig ==
    [i \in 1..(SearchLimit + 1) |->
        Item(ToString(i), "q", IF i > 3 /\ i % 2 = 1 THEN "Series" ELSE "Movie",
             <<2000>>, "plot")]

\* the libraries the upstream can hold, by name
Libraries == {"empty", "small", "big"}
Library(name) ==
    CASE name = "small" -> LibSmall
      [] name = "big" -> LibBig
      [] OTHER -> <<>>

\* client.getItems({searchTerm, IncludeItemTypes: 'Movie,Series', Limit}):
\* the first items of type Movie or Series that match the search term
GetItems(lib, searchTerm, limit) ==
    LET all == SelectSeq(lib, LAMBDA it :
                   /\ it.Type \in {"Movie", "Series"}
                   /\ (searchTerm = Undefined \/ it.Name = searchTerm))
    IN  IF Len(all) <= limit THEN all ELSE SubSeq(all, 1, limit)

\* client.getItem(id): the item, or Null when the server has none
GetItem(lib, id) ==
    IF \E i \in DOMAIN lib : lib[i].Id = id
    THEN lib[CHOOSE i \in DOMAIN lib : lib[i].Id = id]
    ELSE Null

\* client.getImageUrl(id, 'Primary')
GetImageUrl(cfg, id) == <<cfg.ServerURL, "/Items/", id, "/Images/Primary">>

\* season and episode numbers the upstream reports: absent, or a number
EpisodeKinds ==
    { <<<<1>>, <<2>>>>, <<<<1>>, <<1>>>>, <<<<2>>, <<1>>>>,
      <<<<>>, <<2>>>>, <<<<0>>, <<1>>>>, <<<<0>>, <<3>>>> }

Episode(i, kind) ==
    [Id |-> "e" \o ToString(i), ParentIndexNumber |-> kind[1],
     IndexNumber |-> kind[2]]

\* what client.getEpisodes can return: up to MaxEpisodes episodes, no two
\* with the same season and episode numbers
EpisodeLists ==
    UNION { { [i \in 1..n |-> Episode(i, f[i])] :
                f \in {g \in [1..n -> EpisodeKinds] :
                          \A i, j \in 1..n : g[i] = g[j] => i = j} }
            : n \in 0..MaxEpisodes }

\* ------------------------------------------------------------------------
\* CMS proxy (GET /api/emby/cms-proxy/{token})
\* ------------------------------------------------------------------------
\* values of the query parameters; Undefined: the parameter is not there
Acs == {Undefined, "videolist", "list", "detail", "play"}
Wds == {Undefined, "", "q"}
Idss == {Undefined, "", "1", "2", "3"}
\* values of the Host header
Hosts == {"localhost:3000", "tv.example"}
\* process.env.SITE_BASE and the x-forwarded-proto header
SITE_BASE == Undefined
XForwardedProto == Undefined

\* texts of the source that are not ASCII
MsgUnsupported == "unsupported operation"    \* line 27
MsgBadToken == "invalid access token"        \* line 39
MsgNotConfigured == "Emby not configured"    \* line 56
MsgAuthFailed == "Emby auth failed"          \* line 76
MsgMissingId == "missing video id"           \* line 97
MsgNotFound == "video not found"             \* line 177
MsgData == "data list"                       \* lines 148, 234
LabelMovie == "movie"                        \* lines 140, 143, 244, 247
LabelSeries == "series"                      \* lines 140, 244
LabelTV == "tv series"                       \* lines 143, 247
LabelFeature == "feature"                    \* line 211
LabelEpisodeL == "ep["                       \* line 224, before the number
LabelEpisodeR == "]"                         \* line 224, after the number

\* a || 0 on an optional number
OrZero(o) == IF o = <<>> THEN 0 ELSE o[1]

\* `${n}` of an optional number
NumText(o) == IF o = <<>> THEN "undefined" ELSE ToString(o[1])

\* n?.toString() || ''
YearText(o) == IF o = <<>> THEN "" ELSE ToString(o[1])

\* encodeURIComponent on the tokens of the model
EncodeURIComponent(s) == IF s = "s 1" THEN "s%201" ELSE s

\* variant: only the presence of ac is checked
AcSupported_present(ac) == ac # Undefined

\* line 25: the ac parameter is one of the supported operations
AcSupported(ac) == ac = "videolist" \/ ac = "list" \/ ac = "detail"

\* variant: the two conditions joined by "and"
TokenRejected_and(token, secret) == ~Truthy(secret) /\ token # secret

\* line 36: the token is rejected
TokenRejected(token, secret) == ~Truthy(secret) \/ token # secret

\* the empty response shape of lines 37-45, 54-62, 74-82, 95-103, 112-120, 175-183
Soft(code, msg) ==
    [status |-> 200,
     body |-> [code |-> code, msg |-> msg, page |-> 1, pagecount |-> 0,
               limit |-> 0, total |-> 0, list |-> <<>>]]

\* lines 26-29
BadRequest ==
    [status |-> 400, body |-> [code |-> 400, msg |-> MsgUnsupported]]

\* what a handler yields: a response, or an error thrown, and the external
\* steps it performed
Returned(r, eff) == [thrown |-> FALSE, resp |-> r, msg |-> "", effects |-> eff]
Thrown(msg, eff) == [thrown |-> TRUE, resp |-> Null, msg |-> msg, effects |-> eff]

\* lines 136-144: the record of a search result
SearchRecord(cfg, item) ==
    [vod_id |-> item.Id,
     vod_name |-> item.Name,
     vod_pic |-> GetImageUrl(cfg, item.Id),
     vod_remarks |-> IF item.Type = "Movie" THEN LabelMovie ELSE LabelSeries,
     vod_year |-> YearText(item.ProductionYear),
     vod_content |-> OrElse(item.Overview, ""),
     type_name |-> IF item.Type = "Movie" THEN LabelMovie ELSE LabelTV]

\* variant: limit is the requested page size
SearchBody_pageSize(list) ==
    [code |-> 1, msg |-> MsgData, page |-> 1, pagecount |-> 1,
     limit |-> SearchLimit, total |-> Len(list), list |-> list]

\* lines 146-154
SearchBody(list) ==
    [code |-> 1, msg |-> MsgData, page |-> 1, pagecount |-> 1,
     limit |-> Len(list), total |-> Len(list), list |-> list]

\* variant: the query is passed on as it is
SearchTerm_raw(query) == query

\* line 129: query || undefined
SearchTerm(query) == IF Truthy(query) THEN query ELSE Undefined

\* lines 127-155
handleSearch(cfg, lib, query, fail) ==
    LET eff == <<Ev("handleSearch", <<query>>),
                 Ev("getItems", <<SearchTerm(query), SearchLimit>>)>>
        items == GetItems(lib, SearchTerm(query), SearchLimit)
        list == [i \in DOMAIN items |-> SearchRecord(cfg, items[i])]
    IN  IF fail = "getItems" THEN Thrown("getItems failed", eff)
        ELSE Returned([status |-> 200, body |-> SearchBody(list)], eff)

\* lines 201-204
BaseUrl(host) ==
    LET proto == IF Truthy(XForwardedProto) THEN XForwardedProto
                 ELSE IF host = "localhost:3000" THEN "http" ELSE "https"
    IN  IF Truthy(SITE_BASE) THEN <<SITE_BASE>> ELSE <<proto, "://", host>>

\* lines 210, 225
ProxyUrl(host, token, id) ==
    BaseUrl(host) \o <<"/api/emby/play/", EncodeURIComponent(token),
                       "/video.mp4?itemId=", id>>

\* lines 217-222: the comparator of the sort
Compare(a, b) ==
    IF a.ParentIndexNumber # b.ParentIndexNumber
    THEN OrZero(a.ParentIndexNumber) - OrZero(b.ParentIndexNumber)
    ELSE OrZero(a.IndexNumber) - OrZero(b.IndexNumber)

RECURSIVE InsertSorted(_, _)
\* e put into the sorted list s after every element that is not greater
InsertSorted(s, e) ==
    IF s = <<>> THEN <<e>>
    ELSE IF Compare(s[Len(s)], e) <= 0 THEN Append(s, e)
    ELSE Append(InsertSorted(SubSeq(s, 1, Len(s) - 1), e), s[Len(s)])

RECURSIVE StableSort(_)
\* the stable sort of s by Compare
StableSort(s) ==
    IF s = <<>> THEN <<>>
    ELSE InsertSorted(StableSort(SubSeq(s, 1, Len(s) - 1)), s[Len(s)])

\* Compare is a consistent comparator on the elements of s (ECMAScript,
\* Array.prototype.sort): equality and both orders are transitive
Consistent(s) ==
    \A i, j, k \in DOMAIN s :
        /\ (Compare(s[i], s[j]) = 0 /\ Compare(s[j], s[k]) = 0
              => Compare(s[i], s[k]) = 0)
        /\ (Compare(s[i], s[j]) < 0 /\ Compare(s[j], s[k]) < 0
              => Compare(s[i], s[k]) < 0)
        /\ (Compare(s[i], s[j]) > 0 /\ Compare(s[j], s[k]) > 0
              => Compare(s[i], s[k]) > 0)

\* the rearrangements of s
Rearrangements(s) ==
    { [i \in DOMAIN s |-> s[f[i]]] :
        f \in {g \in [DOMAIN s -> DOMAIN s] : \A i, j \in DOMAIN s : g[i] = g[j] => i = j} }

\* lines 216-222: what allEpisodes.sort(...) can leave; with an inconsistent
\* comparator the order is implementation-defined
SortOutcomes(s) ==
    IF Consistent(s) THEN {StableSort(s)} ELSE Rearrangements(s)

\* lines 223-227
EpisodeEntry(host, token, ep) ==
    <<LabelEpisodeL, NumText(ep.IndexNumber), LabelEpisodeR, "$">>
        \o ProxyUrl(host, token, ep.Id)

RECURSIVE Join(_, _)
\* parts.join(sep)
Join(parts, sep) ==
    IF parts = <<>> THEN <<>>
    ELSE IF Len(parts) = 1 THEN parts[1]
    ELSE parts[1] \o <<sep>> \o Join(Tail(parts), sep)

\* lines 206-230
VodPlayUrl(item, host, token, sorted) ==
    IF item.Type = "Movie"
    THEN <<LabelFeature, "$">> \o ProxyUrl(host, token, item.Id)
    ELSE IF item.Type = "Series"
    THEN Join([i \in DOMAIN sorted |-> EpisodeEntry(host, token, sorted[i])], "#")
    ELSE <<>>

\* lines 232-252
DetailBody(cfg, item, vodPlayUrl) ==
    [code |-> 1, msg |-> MsgData, page |-> 1, pagecount |-> 1,
     limit |-> 1, total |-> 1,
     list |-> << [vod_id |-> item.Id,
                  vod_name |-> item.Name,
                  vod_pic |-> GetImageUrl(cfg, item.Id),
                  vod_remarks |-> IF item.Type = "Movie" THEN LabelMovie ELSE LabelSeries,
                  vod_year |-> YearText(item.ProductionYear),
                  vod_content |-> OrElse(item.Overview, ""),
                  type_name |-> IF item.Type = "Movie" THEN LabelMovie ELSE LabelTV,
                  vod_play_url |-> vodPlayUrl,
                  vod_play_from |-> "Emby"] >>]

\* lines 192-253; sorted is what the sort left of the episodes
handleDetail(cfg, lib, itemId, token, host, sorted, fail) ==
    LET item == GetItem(lib, itemId)
        eff1 == <<Ev("handleDetail", <<itemId>>), Ev("getItem", <<itemId>>)>>
        eff2 == eff1 \o <<Ev("getEpisodes", <<itemId>>)>>
    IN  IF fail = "getItem" THEN Thrown("getItem failed", eff1)
        ELSE IF item = Null THEN Thrown("item not found", eff1)
        ELSE IF item.Type = "Series" /\ fail = "getEpisodes"
        THEN Thrown("getEpisodes failed", eff2)
        ELSE Returned([status |-> 200,
                       body |-> DetailBody(cfg, item,
                                           VodPlayUrl(item, host, token, sorted))],
                      IF item.Type = "Series" THEN eff2 ELSE eff1)

\* lines 160-187
handleDetailBySearch(cfg, lib, query, token, host, sorted, fail) ==
    LET eff == <<Ev("handleDetailBySearch", <<query>>),
                 Ev("getItems", <<query, FirstMatchLimit>>)>>
        items == GetItems(lib, query, FirstMatchLimit)
        rest == handleDetail(cfg, lib, items[1].Id, token, host, sorted, fail)
    IN  IF fail = "getItems" THEN Thrown("getItems failed", eff)
        ELSE IF Len(items) = 0 THEN Returned(Soft(0, MsgNotFound), eff)
        ELSE [rest EXCEPT !.effects = eff \o @]

\* variant: the id is looked at before the query
Route_idsFirst(ac, wd, ids) ==
    IF Truthy(ids) THEN "detail"
    ELSE IF Truthy(wd)
    THEN IF ac = "detail" THEN "detailBySearch" ELSE "search"
    ELSE IF ac = "detail" THEN "missingId"
    ELSE "list"

\* lines 86-109: the branch taken
Route(ac, wd, ids) ==
    IF Truthy(wd)
    THEN IF ac = "detail" THEN "detailBySearch" ELSE "search"
    ELSE IF Truthy(ids) \/ ac = "detail"
    THEN IF ~Truthy(ids) THEN "missingId" ELSE "detail"
    ELSE "list"

\* lines 86-109
Dispatch(cfg, lib, ac, wd, ids, token, host, sorted, fail) ==
    LET route == Route(ac, wd, ids)
    IN  CASE route = "detailBySearch" ->
               handleDetailBySearch(cfg, lib, wd, token, host, sorted, fail)
          [] route = "search" -> handleSearch(cfg, lib, wd, fail)
          [] route = "missingId" -> Returned(Soft(0, MsgMissingId), <<>>)
          [] route = "detail" ->
               handleDetail(cfg, lib, ids, token, host, sorted, fail)
          [] route = "list" -> handleSearch(cfg, lib, "", fail)

\* line 53: !embyConfig?.Enabled || !embyConfig.ServerURL
NotEnabled(cfg) == cfg = Null \/ ~cfg.Enabled \/ ~Truthy(cfg.ServerURL)

\* line 68: the handler has to authenticate first
MustAuthenticate(cfg) ==
    ~Truthy(cfg.UserId) /\ Truthy(cfg.Username) /\ Truthy(cfg.Password)

\* the user id the upstream gives on authentication
AuthUserId == "U9"

\* lines 48-121: the handler behind the token check; userId is the UserId
\* the handler leaves in the configuration object
Guarded(cfg, lib, ac, wd, ids, token, host, authOk, sorted, fail) ==
    LET effCfg == <<Ev("getConfig", <<>>)>>
        effAuth == effCfg \o <<Ev("authenticate", <<cfg.Username, cfg.Password>>)>>
        auth == ~NotEnabled(cfg) /\ MustAuthenticate(cfg)
        cfg2 == IF auth THEN [cfg EXCEPT !.UserId = AuthUserId] ELSE cfg
        eff == IF auth THEN effAuth ELSE effCfg
        out == Dispatch(cfg2, lib, ac, wd, ids, token, host, sorted, fail)
    IN  IF NotEnabled(cfg)
        THEN [resp |-> Soft(0, MsgNotConfigured), effects |-> effCfg, config |-> cfg]
        ELSE IF auth /\ (~authOk \/ fail = "authenticate")
        THEN [resp |-> Soft(500, "authenticate failed"), effects |-> effAuth,
              config |-> cfg]
        ELSE IF ~Truthy(cfg2.UserId)
        THEN [resp |-> Soft(0, MsgAuthFailed), effects |-> eff, config |-> cfg2]
        ELSE IF out.thrown
        THEN [resp |-> Soft(500, out.msg), effects |-> eff \o out.effects,
              config |-> cfg2]
        ELSE [resp |-> out.resp, effects |-> eff \o out.effects, config |-> cfg2]

\* lines 15-122
GET(cfg, secret, lib, ac, wd, ids, token, host, authOk, sorted, fail) ==
    IF ~AcSupported(ac)
    THEN [resp |-> BadRequest, effects |-> <<>>, config |-> cfg]
    ELSE IF TokenRejected(token, secret)
    THEN [resp |-> Soft(401, MsgBadToken), effects |-> <<>>, config |-> cfg]
    ELSE Guarded(cfg, lib, ac, wd, ids, token, host, authOk, sorted, fail)

\* the upstream operations the handler calls when nothing fails
CallsOf(cfg, secret, lib, ac, wd, ids, token, host) ==
    LET eff == GET(cfg, secret, lib, ac, wd, ids, token, host, TRUE, <<>>, "none").effects
    IN  {eff[i].op : i \in DOMAIN eff}

CatalogRequest(token, ac, wd, ids, host, lib, eps) ==
    [route |-> "cms-proxy", token |-> token, ac |-> ac, wd |-> wd, ids |-> ids,
     host |-> host, lib |-> lib, eps |-> eps]

\* the CMS proxy handles one request; lib and eps are what the upstream holds,
\* consulted only where the handler calls it
CatalogGET(p, token, ac, wd, ids, host) ==
    /\ pc[p] = "idle"
    /\ \E name \in Libraries :
         LET lib == Library(name)
             calls0 == CallsOf(store, subscribeToken, <<>>, ac, wd, ids, token, host)
             calls == CallsOf(store, subscribeToken, lib, ac, wd, ids, token, host)
         IN  /\ ({"getItems", "getItem"} \cap calls0 = {} => name = "empty")
             /\ \E eps \in IF "getEpisodes" \in calls THEN EpisodeLists ELSE {<<>>} :
                \E sorted \in SortOutcomes(eps) :
                \E authOk \in IF "authenticate" \in calls THEN BOOLEAN ELSE {TRUE} :
                \E fail \in {"none"} \cup
                            (calls \cap {"getItems", "getItem", "getEpisodes"}) :
                \E shared \in IF "authenticate" \in calls THEN BOOLEAN ELSE {FALSE} :
                   LET out == GET(store, subscribeToken, lib, ac, wd, ids, token,
                                  host, authOk, sorted, fail)
                   IN  /\ req' = [req EXCEPT ![p] =
                                    CatalogRequest(token, ac, wd, ids, host, name, eps)]
                       /\ resp' = [resp EXCEPT ![p] = out.resp]
                       /\ effects' = [effects EXCEPT ![p] = out.effects]
                       /\ store' = IF shared THEN out.config ELSE store
    /\ pc' = [pc EXCEPT ![p] = "done"]
    /\ UNCHANGED <<subscribeToken, clock, ticks, cachedEmbyConfig, slotReadAt,
                   now, seen, loaded, readAt, embyConfig>>

\* the response has been sent; the request is gone
Release(p) ==
    /\ pc[p] = "done"
    /\ pc' = [pc EXCEPT ![p] = "idle"]
    /\ req' = [req EXCEPT ![p] = Null]
    /\ resp' = [resp EXCEPT ![p] = Null]
    /\ effects' = [effects EXCEPT ![p] = <<>>]
    /\ UNCHANGED <<envVars, cachedEmbyConfig, slotReadAt, now, seen, loaded,
                   readAt, embyConfig>>

\* ------------------------------------------------------------------------
\* Environment steps
\* ------------------------------------------------------------------------
\* the site's configuration is edited
StoreUpdate(cfg) ==
    /\ cfg # store
    /\ store' = cfg
    /\ UNCHANGED <<subscribeToken, clock, ticks, streamVars>>

\* time passes
Tick(d) ==
    /\ ticks < MaxTicks
    /\ clock' = clock + d
    /\ ticks' = ticks + 1
    /\ UNCHANGED <<subscribeToken, store, streamVars>>

Init ==
    /\ subscribeToken \in Secrets
    /\ store \in StoreConfigs
    /\ clock = 0
    /\ ticks = 0
    /\ cachedEmbyConfig = Null
    /\ slotReadAt = <<>>
    /\ pc = [p \in Procs |-> "idle"]
    /\ req = [p \in Procs |-> Null]
    /\ now = [p \in Procs |-> <<>>]
    /\ seen = [p \in Procs |-> Null]
    /\ loaded = [p \in Procs |-> Null]
    /\ readAt = [p \in Procs |-> <<>>]
    /\ embyConfig = [p \in Procs |-> Null]
    /\ resp = [p \in Procs |-> Null]
    /\ effects = [p \in Procs |-> <<>>]

\* requests of both endpoints, any number at a time
Next ==
    \/ \E p \in Procs, token \in Tokens, user \in CookieUsers, itemId \in ItemIds :
          StreamStart(p, token, user, itemId)
    \/ \E p \in Procs : StoreRead(p)
    \/ \E p \in Procs : ConfigResume(p)
    \/ \E p \in Procs, status \in UpstreamStatuses : FetchDone(p, status)
    \/ \E p \in Procs, token \in Tokens, ac \in Acs, wd \in Wds, ids \in Idss,
          host \in Hosts : CatalogGET(p, token, ac, wd, ids, host)
    \/ \E p \in Procs : Release(p)
    \/ \E cfg \in StoreConfigs : StoreUpdate(cfg)
    \/ \E d \in TickSteps : Tick(d)

Spec == Init /\ [][Next]_vars

\* CMS proxy requests, one at a time
NextCatalog ==
    \/ \E token \in Tokens, ac \in Acs, wd \in Wds, ids \in Idss, host \in Hosts :
          CatalogGET("a", token, ac, wd, ids, host)
    \/ Release("a")

SpecCatalog == Init /\ [][NextCatalog]_vars

\* requests of both endpoints, one at a time, while nothing else changes
NextAccess ==
    \/ \E token \in Tokens, user \in CookieUsers, itemId \in ItemIds :
          StreamStart("a", token, user, itemId)
    \/ StoreRead("a")
    \/ ConfigResume("a")
    \/ \E status \in UpstreamStatuses : FetchDone("a", status)
    \/ \E token \in Tokens, ac \in Acs, wd \in Wds, ids \in Idss, host \in Hosts :
          CatalogGET("a", token, ac, wd, ids, host)
    \/ Release("a")

SpecAccess == Init /\ [][NextAccess]_vars

\* authorized, well-formed stream requests, two at a time, while the clock
\* advances and the store is edited
NextCache ==
    \/ \E p \in Procs : StreamStart(p, "s 1", Undefined, "i1")
    \/ \E p \in Procs : StoreRead(p)
    \/ \E p \in Procs : ConfigResume(p)
    \/ \E p \in Procs, status \in UpstreamStatuses : FetchDone(p, status)
    \/ \E p \in Procs : Release(p)
    \/ \E cfg \in StoreConfigs : StoreUpdate(cfg)
    \/ \E d \in TickSteps : Tick(d)

\* the deployment has the secret the requests carry
InitCache == Init /\ subscribeToken = "s 1"

SpecCache == InitCache /\ [][NextCache]_vars

\* ========================================================================
\* Properties of the config cache
\* ========================================================================
\* the entry c exists and is younger than the TTL at time t
WithinTTL(c, t) == c # Null /\ t - c.timestamp < CACHE_TTL

\* a configuration from which a cache entry can be built
Usable(cfg) ==
    /\ cfg # Null
    /\ cfg.Enabled
    /\ Truthy(cfg.ServerURL)
    /\ (Truthy(cfg.ApiKey) \/ Truthy(cfg.AuthToken))

\* the entry the store content cfg gives when loaded by a call that began at t
EntryOf(cfg, t) ==
    [serverURL |-> cfg.ServerURL,
     apiKey |-> IF Truthy(cfg.ApiKey) THEN cfg.ApiKey ELSE cfg.AuthToken,
     timestamp |-> t]

\* number of steps of eff that are the operation op
Count(eff, op) == Cardinality({i \in DOMAIN eff : eff[i].op = op})

\* this step is the start of a get() by p
GetStarts(p) == pc[p] = "idle" /\ pc'[p] \in {"fetching", "loading"}

\* this step is the resumption of p's get() after the store read
GetResumes(p) == pc[p] = "loaded" /\ pc'[p] # "loaded"

\* a get() that finds a fresh entry returns it and touches nothing
HitStep(p) ==
    GetStarts(p) /\ WithinTTL(cachedEmbyConfig, clock) =>
        /\ pc'[p] = "fetching"
        /\ embyConfig'[p] = cachedEmbyConfig
        /\ cachedEmbyConfig' = cachedEmbyConfig
        /\ Count(effects'[p], "getConfig") = 0

\* a get() that finds no entry or an expired one goes to the store, once
MissStep(p) ==
    GetStarts(p) /\ ~WithinTTL(cachedEmbyConfig, clock) =>
        /\ pc'[p] = "loading"
        /\ now'[p] = <<clock>>
        /\ cachedEmbyConfig' = cachedEmbyConfig
        /\ Count(effects'[p], "getConfig") = 1

\* the reloading get() replaces the slot when the configuration is usable
\* and otherwise fails without touching it
ReloadStep(p) ==
    GetResumes(p) =>
        /\ Count(effects'[p], "getConfig") = 1
        /\ IF Usable(loaded[p])
             THEN /\ cachedEmbyConfig' = EntryOf(loaded[p], now[p][1])
                  /\ embyConfig'[p] = cachedEmbyConfig'
                  /\ pc'[p] = "fetching"
             ELSE /\ cachedEmbyConfig' = cachedEmbyConfig
                  /\ pc'[p] = "done"
                  /\ resp'[p].status = 500

\* C1 (amended): a get() that starts while the slot holds an entry stamped t0
\* with now - t0 < 300000 returns that entry unchanged without a store call;
\* a get() that starts when the slot is empty or now - t0 >= 300000 performs
\* exactly one store read and, when the configuration read is enabled with
\* a server URL and a credential, replaces the slot with the values read and
\* its own start time; otherwise it fails and leaves the slot as it is.
C1_CacheContract ==
    [][\A p \in Procs : HitStep(p) /\ MissStep(p) /\ ReloadStep(p)]_vars

\* C1 witness: one request holds the entry loaded at time 0 that it was served
\* from the cache after time had passed, and another has reloaded at the TTL.
C1_Witness ==
    \E p, q \in Procs :
        /\ pc[p] = "fetching" /\ Ops(effects[p]) = <<"cacheRead", "fetch">>
        /\ embyConfig[p].timestamp = 0
        /\ pc[q] = "fetching" /\ Count(effects[q], "cacheWrite") = 1
        /\ cachedEmbyConfig = embyConfig[q]
        /\ cachedEmbyConfig.timestamp = CACHE_TTL

\* C1 as stated: once an entry stamped t0 is in the slot, a get() within the
\* TTL is served from the cache, and a get() that starts at or after the TTL
\* (and is not overtaken by another writer) reloads once and replaces the slot
\* with the reloaded values and a new timestamp.
C1_Original ==
    [][\A p \in Procs :
          /\ HitStep(p)
          /\ MissStep(p)
          /\ (GetResumes(p) /\ seen[p] # Null /\ cachedEmbyConfig = seen[p] =>
                 /\ cachedEmbyConfig' # cachedEmbyConfig
                 /\ cachedEmbyConfig'.timestamp = now[p][1]
                 /\ embyConfig'[p] = cachedEmbyConfig')]_vars

\* the step in which p's reload fails
ReloadFails(p) == GetResumes(p) /\ ~Usable(loaded[p])

\* C8: a reload that finds the configuration absent, disabled, without a
\* server URL or without a credential ends in an error, writes nothing to the
\* slot (an expired entry stays expired), and a get() that starts while the
\* slot is still empty or expired goes to the store again.
C8_NoNegativeCaching ==
    [][\A p \in Procs :
          /\ (ReloadFails(p) =>
                 /\ cachedEmbyConfig' = cachedEmbyConfig
                 /\ slotReadAt' = slotReadAt
                 /\ resp'[p].status = 500 /\ resp'[p].error # "none"
                 /\ (cachedEmbyConfig = seen[p]
                       => /\ cachedEmbyConfig' = seen[p]
                          /\ ~WithinTTL(cachedEmbyConfig', clock')))
          /\ (\A q \in Procs :
                 /\ pc[q] = "done" /\ resp[q].status = 500
                 /\ Count(effects[q], "getConfig") = 1
                 /\ GetStarts(p) /\ ~WithinTTL(cachedEmbyConfig, clock)
                 => pc'[p] = "loading")]_vars

\* C8 witness: a reload has just failed for want of a credential while the
\* slot holds an entry that has expired, and the entry is still the old one.
C8_Witness ==
    \E p \in Procs :
        /\ pc[p] = "done" /\ resp[p] = Json(500, "credential missing")
        /\ cachedEmbyConfig # Null
        /\ cachedEmbyConfig.timestamp = 0
        /\ clock >= CACHE_TTL

\* the slot holds a pair that one store content yields
Coherent(c) ==
    \E cfg \in StoreConfigs :
        Usable(cfg) /\ c.serverURL = cfg.ServerURL
                    /\ c.apiKey = EntryOf(cfg, 0).apiKey

\* C10: in every interleaving of two concurrent get() calls, an entry served
\* from the cache was read from the store less than 300000 ms before the
\* start of the call it is served to, and the slot holds a server URL and
\* key of one store read, stamped no later than that read.
C10_BoundedStaleness ==
    /\ [](cachedEmbyConfig # Null =>
            /\ Coherent(cachedEmbyConfig)
            /\ cachedEmbyConfig.timestamp <= slotReadAt[1]
            /\ slotReadAt[1] <= clock)
    /\ [][\A p \in Procs :
            /\ (GetStarts(p) /\ pc'[p] = "fetching" =>
                   /\ clock - slotReadAt[1] < CACHE_TTL
                   /\ embyConfig'[p] = cachedEmbyConfig)
            /\ (GetResumes(p) /\ pc'[p] = "fetching" =>
                   /\ now[p][1] - readAt[p][1] < CACHE_TTL
                   /\ slotReadAt' = readAt[p])]_vars

\* C10 witness: the last writer won with the older stamp: one request still
\* holds the newer entry it wrote, the slot holds the entry of a call that
\* began earlier, and the other request has since been served that entry.
C10_Witness ==
    \E p, q \in Procs :
        /\ pc[p] = "fetching" /\ Count(effects[p], "cacheWrite") = 1
        /\ embyConfig[p] # cachedEmbyConfig
        /\ cachedEmbyConfig.timestamp < embyConfig[p].timestamp
        /\ pc[q] = "fetching" /\ Ops(effects[q]) = <<"cacheRead", "fetch">>
        /\ embyConfig[q] = cachedEmbyConfig

\* ========================================================================
\* Properties of the two endpoints
\* ========================================================================
\* p has answered a CMS proxy request / a stream request
CatalogDone(p) == pc[p] = "done" /\ req[p].route = "cms-proxy"
StreamDone(p) == pc[p] = "done" /\ req[p].route = "play"

\* the path token of request r is not the configured secret
BadToken(r) == ~Truthy(subscribeToken) \/ r.token # subscribeToken

\* the ac parameter of request r is one of the three operations
KnownAc(r) == r.ac \in {"videolist", "list", "detail"}

\* the response is one of the list-carrying shapes with no entries
EmptyList(r, code) ==
    r.status = 200 /\ r.body.code = code /\ r.body.list = <<>>

\* C2 (amended): a request whose path token is not the configured secret
\* (or when none is configured) gets, from the catalog endpoint, code 401
\* with an empty list when its ac is one of videolist, list, detail (HTTP 400
\* otherwise) and, from the stream endpoint, HTTP 401 when it carries no
\* session with a user name; wd, ids and itemId make no difference.
C2_BadTokenRejected ==
    \A p \in Procs :
        /\ (CatalogDone(p) /\ BadToken(req[p]) =>
              IF KnownAc(req[p]) THEN EmptyList(resp[p], 401)
              ELSE resp[p].status = 400)
        /\ (StreamDone(p) /\ BadToken(req[p]) /\ ~Truthy(req[p].user) =>
              resp[p].status = 401)
        /\ (pc[p] \in {"loading", "loaded", "fetching"} =>
              ~(BadToken(req[p]) /\ ~Truthy(req[p].user)))

\* C2 witness: the catalog endpoint has answered code 401 to a request with a
\* wrong token that carried a query and an id.
C2_Witness ==
    \E p \in Procs :
        /\ CatalogDone(p) /\ BadToken(req[p]) /\ Truthy(subscribeToken)
        /\ req[p].wd = "q" /\ req[p].ids = "2"
        /\ EmptyList(resp[p], 401)

\* C2 as stated: every request with a token other than the secret is answered
\* code 401 with an empty list by the catalog endpoint and HTTP 401 by the
\* stream endpoint, whatever ac, wd, ids, itemId and the session cookie are.
C2_Original ==
    \A p \in Procs :
        /\ (CatalogDone(p) /\ BadToken(req[p]) => EmptyList(resp[p], 401))
        /\ (StreamDone(p) /\ BadToken(req[p]) => resp[p].status = 401)
        /\ (pc[p] \in {"loading", "loaded", "fetching"} => ~BadToken(req[p]))

\* the handlers that ran for a request, in the order they were entered
HandlersOf(eff) ==
    SelectSeq(eff, LAMBDA e :
        e.op \in {"handleSearch", "handleDetailBySearch", "handleDetail"})

\* the request of p got past the token and configuration checks
Dispatched(p) ==
    /\ CatalogDone(p) /\ KnownAc(req[p]) /\ ~BadToken(req[p])
    /\ resp[p].body.msg \notin {MsgNotConfigured, MsgAuthFailed, "authenticate failed"}

\* the response to a detail request without an id
IsMissingId(p) ==
    /\ EmptyList(resp[p], 0) /\ resp[p].body.msg = MsgMissingId
    /\ HandlersOf(effects[p]) = <<>>

\* the request of p was answered by the handler h called with arg, alone
\* (detail-by-search hands over to the detail handler when it finds an item)
AnsweredBy(p, h, arg) ==
    LET hs == HandlersOf(effects[p])
    IN  /\ hs # <<>>
        /\ hs[1] = Ev(h, <<arg>>)
        /\ \/ Len(hs) = 1
           \/ /\ h = "handleDetailBySearch" /\ Len(hs) = 2
              /\ hs[2].op = "handleDetail"

\* C3 (amended): an authorized request with a supported ac and a usable
\* configuration is answered, if wd is present and not empty, by
\* detail-by-search when ac = detail and by search otherwise; else, if ids is
\* present and not empty or ac = detail, by detail-by-id (by the code 0
\* 'missing id' response when ids is absent or empty); otherwise by the
\* unfiltered list. Exactly one of these runs.
C3_Dispatch ==
    \A p \in Procs : Dispatched(p) =>
        LET r == req[p]
        IN  IF r.wd # Undefined /\ r.wd # ""
            THEN IF r.ac = "detail"
                 THEN AnsweredBy(p, "handleDetailBySearch", r.wd)
                 ELSE AnsweredBy(p, "handleSearch", r.wd)
            ELSE IF (r.ids # Undefined /\ r.ids # "") \/ r.ac = "detail"
            THEN IF r.ids = Undefined \/ r.ids = ""
                 THEN IsMissingId(p)
                 ELSE AnsweredBy(p, "handleDetail", r.ids)
            ELSE AnsweredBy(p, "handleSearch", "")

\* C3 witness: a request with an empty wd and an id was answered by
\* detail-by-id.
C3_Witness ==
    \E p \in Procs :
        /\ Dispatched(p) /\ req[p].wd = "" /\ req[p].ids = "2"
        /\ req[p].ac = "list"
        /\ AnsweredBy(p, "handleDetail", "2")

\* C3 as stated: the branch is chosen by the presence of wd and ids.
C3_Original ==
    \A p \in Procs : Dispatched(p) =>
        LET r == req[p]
        IN  IF r.wd # Undefined
            THEN IF r.ac = "detail"
                 THEN AnsweredBy(p, "handleDetailBySearch", r.wd)
                 ELSE AnsweredBy(p, "handleSearch", r.wd)
            ELSE IF r.ids # Undefined \/ r.ac = "detail"
            THEN IF r.ids = Undefined
                 THEN IsMissingId(p)
                 ELSE AnsweredBy(p, "handleDetail", r.ids)
            ELSE AnsweredBy(p, "handleSearch", "")

\* the ids of the Movie and Series items of the library, at most 100
AllItems(lib) ==
    LET all == SelectSeq(lib, LAMBDA it : it.Type \in {"Movie", "Series"})
        shown == IF Len(all) <= 100 THEN all ELSE SubSeq(all, 1, 100)
    IN  [i \in DOMAIN shown |-> shown[i].Id]

\* the response of p is the unfiltered list
IsFullList(p) ==
    LET b == resp[p].body
    IN  /\ resp[p].status = 200 /\ b.code = 1
        /\ [i \in DOMAIN b.list |-> b.list[i].vod_id] = AllItems(Library(req[p].lib))
        /\ Len(b.list) <= 100
        /\ b.total = Len(b.list) /\ b.limit = Len(b.list)

\* C4 (amended): an authorized request with an empty query (wd = ""), ac
\* videolist or list and no (or an empty) ids, with a usable configuration
\* and an upstream that answers, gets the unfiltered list of Movie and Series
\* items, at most 100, with code 1 and total = limit = length of the list.
C4_EmptySearch ==
    \A p \in Procs :
        /\ Dispatched(p) /\ req[p].wd = ""
        /\ req[p].ac # "detail" /\ req[p].ids \in {Undefined, ""}
        /\ resp[p].body.code # 500
        => IsFullList(p)

\* C4 witness: an empty query was answered with the first 100 items of a
\* library that holds more.
C4_Witness ==
    \E p \in Procs :
        /\ Dispatched(p) /\ req[p].wd = "" /\ req[p].ac = "videolist"
        /\ req[p].lib = "big"
        /\ IsFullList(p) /\ resp[p].body.total = 100

\* C4 as stated: an authorized request with an empty query gets the
\* unfiltered list for any allowed ac and any ids.
C4_Original ==
    \A p \in Procs :
        CatalogDone(p) /\ KnownAc(req[p]) /\ ~BadToken(req[p]) /\ req[p].wd = ""
        => IsFullList(p)

RECURSIVE Split(_, _)
\* the pieces of s between the occurrences of sep
Split(s, sep) ==
    IF \A i \in DOMAIN s : s[i] # sep THEN <<s>>
    ELSE LET k == CHOOSE i \in DOMAIN s :
                     s[i] = sep /\ \A j \in 1..(i - 1) : s[j] # sep
         IN  <<SubSeq(s, 1, k - 1)>> \o Split(SubSeq(s, k + 1, Len(s)), sep)

\* the play-list entries of a vod_play_url
Segments(url) == IF url = <<>> THEN <<>> ELSE Split(url, "#")

\* (season, episode) of a before or equal to that of b, absent numbers as 0
LexLeq(a, b) ==
    \/ OrZero(a.ParentIndexNumber) < OrZero(b.ParentIndexNumber)
    \/ /\ OrZero(a.ParentIndexNumber) = OrZero(b.ParentIndexNumber)
       /\ OrZero(a.IndexNumber) <= OrZero(b.IndexNumber)

\* p has answered with the detail of a series
SeriesDetail(p) ==
    /\ CatalogDone(p) /\ resp[p].status = 200 /\ resp[p].body.code = 1
    /\ \E i \in DOMAIN effects[p] : effects[p][i].op = "getEpisodes"

\* C5: the entries of the vod_play_url of a series are the episodes the
\* upstream returned, each once, in ascending order of (season, episode)
\* with absent numbers as 0, each of the form label, number, '$', proxy URL
\* of that episode.
C5_SeriesOrder ==
    \A p \in Procs : SeriesDetail(p) =>
        LET eps == req[p].eps
            segs == Segments(resp[p].body.list[1].vod_play_url)
        IN  /\ Len(segs) = Len(eps)
            /\ \E f \in [DOMAIN segs -> DOMAIN eps] :
                 /\ \A i, j \in DOMAIN segs : f[i] = f[j] => i = j
                 /\ \A i \in DOMAIN segs :
                      segs[i] = <<LabelEpisodeL, NumText(eps[f[i]].IndexNumber),
                                  LabelEpisodeR, "$">>
                                \o ProxyUrl(req[p].host, req[p].token, eps[f[i]].Id)
                 /\ \A i, j \in DOMAIN segs :
                      i < j => LexLeq(eps[f[i]], eps[f[j]])

\* C6: a catalog request whose ac is absent or not one of videolist, list,
\* detail is answered HTTP 400 whatever its token, wd and ids are, and
\* neither the configuration nor the upstream is consulted for it.
C6_UnsupportedAc ==
    \A p \in Procs : CatalogDone(p) /\ ~KnownAc(req[p]) =>
        /\ resp[p].status = 400
        /\ resp[p].body.code = 400
        /\ effects[p] = <<>>

\* C6 witness: a request with the right token, a query and an id, but an
\* unknown ac, was answered 400.
C6_Witness ==
    \E p \in Procs :
        /\ CatalogDone(p) /\ req[p].ac = "play" /\ ~BadToken(req[p])
        /\ req[p].wd = "q" /\ req[p].ids = "2"
        /\ resp[p].status = 400

\* C7: every catalog response that carries a list has
\* length(list) = limit = total.
C7_ListLength ==
    \A p \in Procs :
        CatalogDone(p) /\ "list" \in DOMAIN resp[p].body =>
            /\ Len(resp[p].body.list) = resp[p].body.limit
            /\ resp[p].body.limit = resp[p].body.total

\* C7 witness: a search was answered with a list of two records.
C7_Witness ==
    \E p \in Procs :
        /\ CatalogDone(p) /\ AnsweredBy(p, "handleSearch", "q")
        /\ resp[p].body.code = 1
        /\ Len(resp[p].body.list) = 2

\* the request r fails the access guard of its endpoint
GuardFails(r) ==
    IF r.route = "play" THEN BadToken(r) /\ ~Truthy(r.user) ELSE BadToken(r)

\* C9: a request that fails the access guard causes no configuration load,
\* no cache read or write, no upstream query and no upstream fetch; a request
\* for which any of these has happened has passed the guard.
C9_GuardFirst ==
    /\ [](\A p \in Procs : req[p] # Null /\ GuardFails(req[p]) =>
            /\ effects[p] = <<>>
            /\ pc[p] = "done")
    /\ [][\A p \in Procs :
            pc[p] = "idle" /\ pc'[p] # "idle" /\ GuardFails(req'[p]) =>
                /\ cachedEmbyConfig' = cachedEmbyConfig
                /\ store' = store]_vars

\* C9 witness: a stream request was turned away with 401 while the cache held
\* an entry, and nothing was done for it.
C9_Witness ==
    \E p \in Procs :
        /\ StreamDone(p) /\ GuardFails(req[p]) /\ resp[p].status = 401
        /\ effects[p] = <<>>
        /\ cachedEmbyConfig # Null

====
